---- MODULE Spec2Model ----
(***************************************************************************)
(* A model of the viola command line front end (src/mod.ts, lines 1-521):  *)
(* main, run, listLinters, runWithLoadedConfig and registerBuilderLinters.  *)
(* The engine (@hiisi/viola: loadConfig, discoverPlugins, runViola,        *)
(* formatResults, registry) is an opaque collaborator: each call either     *)
(* returns a value drawn from a small set or throws.                        *)
(*                                                                         *)
(* Strings are sequences of one-character strings, so that split(",") and  *)
(* trim() are computed and not assumed.  An optional value (T | undefined) *)
(* is the empty sequence (undefined) or a one-element sequence.             *)
(***************************************************************************)
EXTENDS Naturals, Sequences, FiniteSets

\* ------------------------------------------------------------------ bounds
\* Longest value of a string flag explored by the flag-parsing specifications.
MaxStrLen == 2
\* Longest builderConfig.linters list explored by SpecBuilder.
MaxLinters == 2
\* Largest exit code a bridge child ends with when it is not ended by
\* runWithLoadedConfig's own return value.
MaxExit == 2

\* ------------------------------------------------------------ optional values
None == << >>
Some(x) == << x >>
IsSome(o) == Len(o) = 1
Val(o) == o[1]

\* ------------------------------------------------------------------- strings
Whitespace == {" "}
Comma == ","
Alphabet == {"a", Comma, " "}

RECURSIVE SeqsUpTo(_, _)
SeqsUpTo(S, n) ==
  IF n = 0 THEN { << >> }
  ELSE LET shorter == SeqsUpTo(S, n - 1)
       IN  shorter \cup { Append(s, x) : s \in {t \in shorter : Len(t) = n - 1}, x \in S }

\* String.prototype.split(","): the pieces between the commas, in order.
RECURSIVE split(_)
split(s) ==
  IF \E i \in 1..Len(s) : s[i] = Comma
  THEN LET i == CHOOSE k \in 1..Len(s) :
                  s[k] = Comma /\ \A j \in 1..(k - 1) : s[j] # Comma
       IN  << SubSeq(s, 1, i - 1) >> \o split(SubSeq(s, i + 1, Len(s)))
  ELSE << s >>

\* String.prototype.trim(): leading and trailing white space removed.
RECURSIVE trim(_)
trim(s) ==
  IF s = << >> THEN s
  ELSE IF s[1] \in Whitespace THEN trim(Tail(s))
  ELSE IF s[Len(s)] \in Whitespace THEN trim(SubSeq(s, 1, Len(s) - 1))
  ELSE s

\* x.split(",").map((s) => s.trim())
splitTrim(s) == [i \in 1..Len(split(s)) |-> trim(split(s)[i])]

\* JavaScript truthiness of an optional string: defined and not "".
Truthy(o) == IsSome(o) /\ Val(o) # << >>

\* --------------------------------------------------------------- the data
\* Linters a builder configuration or a plugin may carry: an id and, maybe,
\* an issue catalog.  LintC repeats LintA's id with another catalog.
LintA == [meta_id |-> <<"x">>, catalog |-> Some("catA")]
LintB == [meta_id |-> <<"y">>, catalog |-> None]
LintC == [meta_id |-> <<"x">>, catalog |-> Some("catC")]
Linters == {LintA, LintB, LintC}

\* Values a configuration file supplies (never produced by the flag parser).
DirLib == <<"l", "i", "b">>
PkgA == <<"p", "k", "g">>
Preset == <<"b", "a", "s", "e">>

\* src/mod.ts:219, the hardcoded default include list.
DefaultInclude ==
  << <<"s", "r", "c">>, <<"p", "a", "c", "k", "a", "g", "e", "s">>, <<"a", "p", "p">> >>

\* ResolvedConfig as loadConfig returns it (the fields the CLI reads).
Configs ==
  [include : {<< >>, <<DirLib>>},
   plugins : {<< >>, <<PkgA>>},
   inherit : {<<Preset>>},
   linterConfig : {"linterConfig"}]

BuilderOf(ls) == [linters |-> ls, rules |-> "rules", grammarRegistry |-> "grammar"]

\* What loadConfig may return: {config, builderConfig?}.
LoadResults(linterLists) ==
  [config : Configs,
   builderConfig : {None} \cup {Some(BuilderOf(ls)) : ls \in linterLists}]

\* The builder linter lists of the control-flow specification.
FlowLinterLists == {<< >>, <<LintA>>, <<LintA, LintB>>}
\* Every builder linter list up to MaxLinters.
AllLinterLists == SeqsUpTo(Linters, MaxLinters)

\* What discoverPlugins + registerDiscoveredLinters may add to the registry.
Discoveries == {<< >>, <<LintB>>}

\* The parsed command line (CliArgs, src/mod.ts:28-48); aliases are folded
\* into the long names by parseArgs.
ArgsOver(helps, lists, toggles, onlys, skips, includes, pluginss, paths) ==
  [help : helps, list : lists, reportOnly : toggles, verbose : toggles,
   parallel : toggles, only : onlys, skip : skips, include : includes,
   plugins : pluginss, project : paths, config : paths]

PathArg == <<"/", "p">>
\* Every value of a string flag up to MaxStrLen characters, and its absence.
AllFlagValues == {None} \cup {Some(s) : s \in SeqsUpTo(Alphabet, MaxStrLen)}
Absent == {None}
FewFlagValues == {None, Some(<<"a">>)}
FewPluginValues == {None, Some(<< >>), Some(<<"a">>)}
FewPaths == {None, Some(PathArg)}

\* Control-flow specification: with --help every combination of the other
\* flags; without it the flags that steer run.
FlowArgs ==
  ArgsOver({TRUE}, BOOLEAN, BOOLEAN, FewFlagValues, FewFlagValues, FewFlagValues,
           FewPluginValues, FewPaths)
  \cup
  {a \in ArgsOver({FALSE}, BOOLEAN, BOOLEAN, Absent, Absent, FewFlagValues,
                  FewPluginValues, FewPaths) : a.project = None}

\* Flag-parsing specification: one string flag at a time takes every value
\* up to MaxStrLen, the others a few.
FlagArgs ==
  ArgsOver(BOOLEAN, BOOLEAN, {FALSE}, Absent, Absent, AllFlagValues, FewPluginValues, Absent)
  \cup
  ArgsOver(BOOLEAN, BOOLEAN, {FALSE}, Absent, Absent, FewFlagValues, AllFlagValues, Absent)
  \cup
  ArgsOver(BOOLEAN, BOOLEAN, {FALSE}, AllFlagValues, FewFlagValues, Absent, {Some(<<"a">>)}, Absent)
  \cup
  ArgsOver(BOOLEAN, BOOLEAN, {FALSE}, FewFlagValues, AllFlagValues, Absent, {Some(<<"a">>)}, Absent)

\* Override specification: every toggle together with --only, --skip,
\* --include and --plugins.
OverrideArgs ==
  ArgsOver(BOOLEAN, BOOLEAN, BOOLEAN, FewFlagValues, FewFlagValues, FewFlagValues,
           FewPluginValues, Absent)

\* Builder specification: the flags that meet the builder linters.
BuilderArgs ==
  ArgsOver(BOOLEAN, BOOLEAN, {FALSE}, Absent, Absent, Absent, FewPluginValues, Absent)

\* ---------------------------------------------------------------- the state
VARIABLES
  args,            \* Deno.args as parsed (module level `args`, and rawArgs in the child)
  isRemoteOrigin,  \* !import.meta.url.startsWith("file://")
  pc,              \* where main is in the parent process
  configFile,      \* what Deno.stat found at the config path
  tmpFile,         \* the bridge script: "none", "exists", "removed", "remove failed"
  children,        \* child processes spawned so far
  cpc,             \* where the bridge child is
  childCode,       \* the child's exit code, once it has one
  configImported,  \* the child imported the configuration module
  exitCode,        \* the parent's exit code, once it has ended
  exitHow,         \* "exit" (Deno.exit) or "uncaught" (main rejected)
  fn,              \* the orchestrator function running: "none", "run", "rwlc"
  rpc,             \* where that function is
  ret,             \* its return value
  loaded,          \* loadConfig's result
  locals,          \* include, only, skip, plugins, hasBuilderLinters, catalogs
  registry,        \* the process-wide linter registry, in registration order
  calls,           \* the collaborator calls made, in order
  options,         \* the ViolaOptions runViola was called with
  results,         \* runViola's result
  stdout,          \* what console.log printed (kinds of lines)
  stderr           \* what console.error printed (kinds of lines)

mainVars == <<pc, configFile, tmpFile, children, exitCode, exitHow>>
childVars == <<cpc, childCode, configImported>>
runVars == <<fn, rpc, ret, loaded, locals, registry, calls, options, results, stdout, stderr>>
vars == <<args, isRemoteOrigin, mainVars, childVars, runVars>>

InitWith(argSet) ==
  /\ args \in argSet
  /\ isRemoteOrigin \in BOOLEAN
  /\ pc = "main"
  /\ configFile = "unknown"
  /\ tmpFile = "none"
  /\ children = 0
  /\ cpc = "none"
  /\ childCode = None
  /\ configImported = FALSE
  /\ exitCode = None
  /\ exitHow = "running"
  /\ fn = "none"
  /\ rpc = "idle"
  /\ ret = None
  /\ loaded = None
  /\ locals = None
  /\ registry = << >>
  /\ calls = << >>
  /\ options = None
  /\ results = None
  /\ stdout = {}
  /\ stderr = {}

\* ------------------------------------------------------- main (parent process)
Cwd == <<"/", "c", "w", "d">>
\* resolve() of @std/path on the paths of this model: "" is the working
\* directory, an absolute path is itself.
resolve(p) == IF p = << >> THEN Cwd ELSE p

\* src/mod.ts:475-477: the path main hands to Deno.stat.
main_configPath(cliArgs) ==
  IF Truthy(cliArgs.config) THEN "explicit" ELSE "viola.config.ts"

\* What Deno.stat may find there: a --config target may be a declarative
\* (JSON) file; <projectRoot>/viola.config.ts is a module when it exists.
StatOutcomes(path) ==
  IF path = "explicit" THEN {"absent", "module", "declarative"}
  ELSE {"absent", "module"}

\* An uncaught rejection of main ends the process with exit code 1.
Uncaught ==
  /\ pc' = "exited"
  /\ exitHow' = "uncaught"
  /\ exitCode' = Some(1)

\* Deno.exit(code): the process ends at once; no finally block runs.
DenoExit(code) ==
  /\ pc' = "exited"
  /\ exitHow' = "exit"
  /\ exitCode' = Some(code)

\* `await run(args)` begins (lines 484 and 514).
CallRun ==
  /\ pc' = "run"
  /\ fn' = "run"
  /\ rpc' = "start"

\* src/mod.ts:470-472
main_start ==
  /\ pc = "main"
  /\ IF isRemoteOrigin
     THEN pc' = "stat" /\ UNCHANGED <<fn, rpc>>
     ELSE CallRun
  /\ UNCHANGED <<args, isRemoteOrigin, configFile, tmpFile, children, exitCode, exitHow,
                 childVars, ret, loaded, locals, registry, calls, options, results,
                 stdout, stderr>>

\* src/mod.ts:474-487
main_stat ==
  /\ pc = "stat"
  /\ \E found \in StatOutcomes(main_configPath(args)) :
       /\ configFile' = found
       /\ IF found = "absent"
          THEN CallRun
          ELSE pc' = "mktemp" /\ UNCHANGED <<fn, rpc>>
  /\ UNCHANGED <<args, isRemoteOrigin, tmpFile, children, exitCode, exitHow,
                 childVars, ret, loaded, locals, registry, calls, options, results,
                 stdout, stderr>>

\* src/mod.ts:490: Deno.makeTempFile, outside the try block.
main_makeTempFile ==
  /\ pc = "mktemp"
  /\ \/ /\ tmpFile' = "exists"
        /\ pc' = "write"
        /\ UNCHANGED <<exitCode, exitHow>>
     \/ /\ Uncaught
        /\ UNCHANGED tmpFile
  /\ UNCHANGED <<args, isRemoteOrigin, configFile, children, childVars, runVars>>

\* src/mod.ts:492-498: Deno.writeTextFile inside the try block.
main_writeRunner ==
  /\ pc = "write"
  /\ pc' \in {"spawn", "finally"}
  /\ UNCHANGED <<args, isRemoteOrigin, configFile, tmpFile, children, exitCode, exitHow,
                 childVars, runVars>>

\* src/mod.ts:500-507: new Deno.Command(...).output() starts the child, or throws.
main_spawn ==
  /\ pc = "spawn"
  /\ \/ /\ children' = children + 1
        /\ cpc' = "import"
        /\ pc' = "wait"
     \/ /\ pc' = "finally"
        /\ UNCHANGED <<children, cpc>>
  /\ UNCHANGED <<args, isRemoteOrigin, configFile, tmpFile, exitCode, exitHow,
                 childCode, configImported, runVars>>

main_forwardExit_failureAsOne ==
  /\ pc = "wait"
  /\ IsSome(childCode)
  /\ DenoExit(IF Val(childCode) = 0 THEN 0 ELSE 1)
  /\ UNCHANGED <<args, isRemoteOrigin, configFile, tmpFile, children, childVars, runVars>>

\* src/mod.ts:507-508: output() resolves with the child's status and
\* Deno.exit(status.code) ends the parent inside the try block.
main_forwardExit ==
  /\ pc = "wait"
  /\ IsSome(childCode)
  /\ DenoExit(Val(childCode))
  /\ UNCHANGED <<args, isRemoteOrigin, configFile, tmpFile, children, childVars, runVars>>

\* src/mod.ts:509-511: the finally block, reached by a thrown error only;
\* Deno.remove may fail (ignored); the error then leaves main.
main_finally ==
  /\ pc = "finally"
  /\ tmpFile' \in {"removed", "remove failed"}
  /\ Uncaught
  /\ UNCHANGED <<args, isRemoteOrigin, configFile, children, childVars, runVars>>

\* src/mod.ts:484-486 and 514-515: Deno.exit(code) after run returned; a
\* rejected run leaves main as an uncaught error.
main_runExit ==
  /\ pc = "run"
  /\ \/ rpc = "returned" /\ DenoExit(Val(ret))
     \/ rpc = "rejected" /\ Uncaught
  /\ UNCHANGED <<args, isRemoteOrigin, configFile, tmpFile, children, childVars, runVars>>

\* ------------------------------------------------- the bridge child process
\* src/mod.ts:493: `import config from "file://<configPath>"`.  A module may
\* load, throw (exit code 1) or end the process with another failure code;
\* a declarative file is no module and the import fails.
child_importConfig ==
  /\ cpc = "import"
  /\ \/ /\ configFile = "module"
        /\ configImported' = TRUE
        /\ cpc' = "rwlc"
        /\ fn' = "rwlc"
        /\ rpc' = "start"
        /\ UNCHANGED childCode
     \/ /\ \E code \in 1..MaxExit :
             /\ configFile = "declarative" => code = 1
             /\ childCode' = Some(code)
        /\ cpc' = "exited"
        /\ UNCHANGED <<configImported, fn, rpc>>
  /\ UNCHANGED <<args, isRemoteOrigin, mainVars, ret, loaded, locals, registry, calls,
                 options, results, stdout, stderr>>

child_exit_bridgesAgain ==
  /\ cpc = "rwlc"
  /\ \/ rpc = "returned" /\ childCode' = ret
     \/ rpc = "rejected" /\ childCode' = Some(1)
  /\ cpc' = "exited"
  /\ children' = children + 1
  /\ UNCHANGED <<args, isRemoteOrigin, pc, configFile, tmpFile, exitCode, exitHow,
                 configImported, runVars>>

\* src/mod.ts:495-496: Deno.exit(code) with runWithLoadedConfig's value; a
\* rejection is an uncaught error of the child (exit code 1).
child_exit ==
  /\ cpc = "rwlc"
  /\ \/ rpc = "returned" /\ childCode' = ret
     \/ rpc = "rejected" /\ childCode' = Some(1)
  /\ cpc' = "exited"
  /\ UNCHANGED <<args, isRemoteOrigin, mainVars, configImported, runVars>>

\* ------------------------------------------------ registerBuilderLinters
\* Map.prototype.set on a map held as a function from ids to catalogs.
MapSet(m, k, v) == [x \in DOMAIN m \cup {k} |-> IF x = k THEN v ELSE m[x]]
EmptyMap == [x \in {} |-> None]

registerBuilderLinters_firstWins(linters) ==
  LET has == {i \in 1..Len(linters) : IsSome(linters[i].catalog)}
  IN  [id \in {linters[i].meta_id : i \in has} |->
         Val(linters[CHOOSE i \in has :
                       /\ linters[i].meta_id = id
                       /\ \A j \in has : linters[j].meta_id = id => i <= j].catalog)]

\* src/mod.ts:126-135: the catalogs collected over the linters, in order.
RECURSIVE registerBuilderLinters(_)
registerBuilderLinters(linters) ==
  IF linters = << >> THEN EmptyMap
  ELSE LET n == Len(linters)
           linter == linters[n]
           catalogs == registerBuilderLinters(SubSeq(linters, 1, n - 1))
       IN  IF IsSome(linter.catalog)
           THEN MapSet(catalogs, linter.meta_id, Val(linter.catalog))
           ELSE catalogs

\* k calls of the collaborator `name`, appended to the call log.
Repeat(name, k) == [i \in 1..k |-> name]

\* ------------------------------------------------------------------ run
\* src/mod.ts:200
run_projectRoot(cliArgs) ==
  resolve(IF IsSome(cliArgs.project) THEN Val(cliArgs.project) ELSE Cwd)

run_include_configFirst(cliArgs, config) ==
  IF Len(config.include) > 0 THEN config.include
  ELSE IF Truthy(cliArgs.include) THEN splitTrim(Val(cliArgs.include))
  ELSE DefaultInclude

\* src/mod.ts:215-219
run_include(cliArgs, config) ==
  IF Truthy(cliArgs.include) THEN splitTrim(Val(cliArgs.include))
  ELSE IF Len(config.include) > 0 THEN config.include
  ELSE DefaultInclude

run_only_verbatim(cliArgs) ==
  IF IsSome(cliArgs.only) THEN Some(split(Val(cliArgs.only))) ELSE None

\* src/mod.ts:221-223
run_only(cliArgs) ==
  IF Truthy(cliArgs.only) THEN Some(splitTrim(Val(cliArgs.only))) ELSE None

run_skip_flagPresent(cliArgs) ==
  IF IsSome(cliArgs.skip) THEN Some(splitTrim(Val(cliArgs.skip))) ELSE None

\* src/mod.ts:225-227
run_skip(cliArgs) ==
  IF Truthy(cliArgs.skip) THEN Some(splitTrim(Val(cliArgs.skip))) ELSE None

\* src/mod.ts:230
run_hasBuilderLinters(builderConfig) ==
  IsSome(builderConfig) /\ Len(Val(builderConfig).linters) > 0

run_hasStringPlugins_flagPresent(cliArgs, config) ==
  Len(config.plugins) > 0 \/ IsSome(cliArgs.plugins)

\* src/mod.ts:231
run_hasStringPlugins(cliArgs, config) ==
  Len(config.plugins) > 0 \/ Truthy(cliArgs.plugins)

run_plugins_union(cliArgs, config) ==
  IF Truthy(cliArgs.plugins) THEN splitTrim(Val(cliArgs.plugins)) \o config.plugins
  ELSE config.plugins

\* src/mod.ts:246-248
run_plugins(cliArgs, config) ==
  IF Truthy(cliArgs.plugins) THEN splitTrim(Val(cliArgs.plugins))
  ELSE config.plugins

\* src/mod.ts:234-241: the lines written to stderr.
run_noPluginsError ==
  {"Error: No plugins configured.", "Create a viola.config.ts", "Example:"}

\* src/mod.ts:251-278: the verbose header.
run_header(cliArgs) == IF cliArgs.verbose THEN {"VIOLA header"} ELSE {}

ViolaOptions_noInherit(root, plugins, cliArgs, config, builderConfig, l, catalogs) ==
  [projectRoot |-> root,
   include |-> l.include,
   plugins |-> plugins,
   inherit |-> << >>,
   linterConfig |-> config.linterConfig,
   reportOnly |-> cliArgs.reportOnly,
   verbose |-> cliArgs.verbose,
   parallel |-> cliArgs.parallel,
   only |-> l.only,
   skip |-> l.skip,
   rules |-> IF IsSome(builderConfig) THEN Some(Val(builderConfig).rules) ELSE None,
   catalogs |-> catalogs,
   grammarRegistry |-> IF IsSome(builderConfig) THEN Val(builderConfig).grammarRegistry
                       ELSE "created"]

\* The ViolaOptions literal of src/mod.ts:288-304 and 428-442, around the
\* project root and the plugin list.
ViolaOptions(root, plugins, cliArgs, config, builderConfig, l, catalogs) ==
  [projectRoot |-> root,
   include |-> l.include,
   plugins |-> plugins,
   inherit |-> config.inherit,
   linterConfig |-> config.linterConfig,
   reportOnly |-> cliArgs.reportOnly,
   verbose |-> cliArgs.verbose,
   parallel |-> cliArgs.parallel,
   only |-> l.only,
   skip |-> l.skip,
   rules |-> IF IsSome(builderConfig) THEN Some(Val(builderConfig).rules) ELSE None,
   catalogs |-> catalogs,
   grammarRegistry |-> IF IsSome(builderConfig) THEN Val(builderConfig).grammarRegistry
                       ELSE "created"]

run_options_keepsPlugins(cliArgs, config, builderConfig, l, catalogs) ==
  ViolaOptions(run_projectRoot(cliArgs), l.plugins,
               cliArgs, config, builderConfig, l, catalogs)

\* src/mod.ts:288-304
run_options(cliArgs, config, builderConfig, l, catalogs) ==
  ViolaOptions(run_projectRoot(cliArgs),
               IF l.hasBuilderLinters THEN << >> ELSE l.plugins,
               cliArgs, config, builderConfig, l, catalogs)

run_exitCode_alwaysZero(res, cliArgs) == 0

run_exitCode_ignoresReportOnly(res, cliArgs) ==
  IF res.hasErrors THEN 1 ELSE 0

\* src/mod.ts:309-312
run_exitCode(res, cliArgs) ==
  IF res.hasErrors /\ ~cliArgs.reportOnly THEN 1 ELSE 0

\* ------------------------------------------------- runWithLoadedConfig
\* src/mod.ts:355
rwlc_projectRoot(cliArgs) ==
  resolve(IF IsSome(cliArgs.project) THEN Val(cliArgs.project) ELSE Cwd)

\* src/mod.ts:395-399
rwlc_include(cliArgs, config) ==
  IF Truthy(cliArgs.include) THEN splitTrim(Val(cliArgs.include))
  ELSE IF Len(config.include) > 0 THEN config.include
  ELSE DefaultInclude

\* src/mod.ts:401-403
rwlc_only(cliArgs) ==
  IF Truthy(cliArgs.only) THEN Some(splitTrim(Val(cliArgs.only))) ELSE None

\* src/mod.ts:405-407
rwlc_skip(cliArgs) ==
  IF Truthy(cliArgs.skip) THEN Some(splitTrim(Val(cliArgs.skip))) ELSE None

\* src/mod.ts:409
rwlc_hasBuilderLinters(builderConfig) ==
  IsSome(builderConfig) /\ Len(Val(builderConfig).linters) > 0

\* src/mod.ts:410
rwlc_hasStringPlugins(cliArgs, config) ==
  Len(config.plugins) > 0 \/ Truthy(cliArgs.plugins)

rwlc_plugins_configOnly(cliArgs, config) == config.plugins

\* src/mod.ts:418-420
rwlc_plugins(cliArgs, config) ==
  IF Truthy(cliArgs.plugins) THEN splitTrim(Val(cliArgs.plugins))
  ELSE config.plugins

\* src/mod.ts:413-414: the lines written to stderr.
rwlc_noPluginsError ==
  {"Error: No plugins configured.", "Create a viola.config.ts"}

\* src/mod.ts:428-442
rwlc_options(cliArgs, config, builderConfig, l, catalogs) ==
  ViolaOptions(rwlc_projectRoot(cliArgs),
               IF l.hasBuilderLinters THEN << >> ELSE l.plugins,
               cliArgs, config, builderConfig, l, catalogs)

\* src/mod.ts:447-450
rwlc_exitCode(res, cliArgs) ==
  IF res.hasErrors /\ ~cliArgs.reportOnly THEN 1 ELSE 0

\* --------------------------------------------- steps of the orchestrator
Return(code) ==
  /\ ret' = Some(code)
  /\ rpc' = "returned"

\* `await loadConfig(...)`: a result, or a rejection that nothing around the
\* call catches (src/mod.ts:144, 209 and 359 stand outside any try block).
LoadConfigCall(f, at, loadResults, next) ==
  /\ fn = f
  /\ rpc = at
  /\ calls' = Append(calls, "loadConfig")
  /\ \/ \E r \in loadResults :
          /\ loaded' = Some(r)
          /\ rpc' = next
     \/ /\ rpc' = "rejected"
        /\ UNCHANGED loaded
  /\ UNCHANGED <<args, isRemoteOrigin, mainVars, childVars, fn, ret, locals, registry,
                 options, results, stdout, stderr>>

\* showHelp(); return 0
HelpShown ==
  /\ stdout' = stdout \cup {"viola - Convention linter"}
  /\ Return(0)

run_start_noHelpCheck ==
  /\ fn = "run"
  /\ rpc = "start"
  /\ rpc' = IF args.list THEN "list" ELSE "load"
  /\ UNCHANGED <<args, isRemoteOrigin, mainVars, childVars, fn, ret, loaded, locals,
                 registry, calls, options, results, stdout, stderr>>

\* src/mod.ts:193-206: --help, then --list, then the run proper.
run_start ==
  /\ fn = "run"
  /\ rpc = "start"
  /\ IF args.help THEN HelpShown
     ELSE /\ rpc' = IF args.list THEN "list" ELSE "load"
          /\ UNCHANGED <<ret, stdout>>
  /\ UNCHANGED <<args, isRemoteOrigin, mainVars, childVars, fn, loaded, locals, registry,
                 calls, options, results, stderr>>

\* src/mod.ts:208-212
run_loadConfig(loadResults) == LoadConfigCall("run", "load", loadResults, "overrides")

\* src/mod.ts:144-147
listLinters_loadConfig(loadResults) ==
  LoadConfigCall("run", "list", loadResults, "list_register")

\* src/mod.ts:331-353: parseArgs again, then --help.
rwlc_start ==
  /\ fn = "rwlc"
  /\ rpc = "start"
  /\ IF args.help THEN HelpShown
     ELSE /\ rpc' = "load"
          /\ UNCHANGED <<ret, stdout>>
  /\ UNCHANGED <<args, isRemoteOrigin, mainVars, childVars, fn, loaded, locals, registry,
                 calls, options, results, stderr>>

\* src/mod.ts:358-365: loadConfig with the preloaded module, then --list.
rwlc_loadConfig(loadResults) ==
  LoadConfigCall("rwlc", "load", loadResults,
                 IF args.list THEN "list_register" ELSE "overrides")

RegisterAll_twice(linters, done, then, thrown) ==
  /\ registry' = registry \o linters \o linters
  /\ calls' = calls \o Repeat("register", 2 * Len(linters)) \o then
  /\ rpc' = done

\* registerBuilderLinters(linters) as it runs: registry.register is called
\* for the linters in order; call number k + 1 may throw, leaving k of them
\* registered.  `then` are the calls that follow at once when none threw,
\* `thrown` is where control goes otherwise.
RegisterAll(linters, done, then, thrown) ==
  \/ /\ registry' = registry \o linters
     /\ calls' = calls \o Repeat("register", Len(linters)) \o then
     /\ rpc' = done
  \/ \E k \in 0..(Len(linters) - 1) :
       /\ registry' = registry \o SubSeq(linters, 1, k)
       /\ calls' = calls \o Repeat("register", k + 1)
       /\ rpc' = thrown

\* src/mod.ts:149-165 (listLinters) and 366-375 (runWithLoadedConfig): fill
\* the registry from the builder linters, else from config.plugins, else
\* report that nothing is configured.
ListRegister(f, noPluginsLines, noPluginsCode) ==
  /\ fn = f
  /\ rpc = "list_register"
  /\ LET config == Val(loaded).config
         builderConfig == Val(loaded).builderConfig
     IN  IF IsSome(builderConfig) /\ Len(Val(builderConfig).linters) > 0
         THEN /\ RegisterAll(Val(builderConfig).linters, "list_print", << >>, "rejected")
              /\ UNCHANGED <<ret, stdout>>
         ELSE IF Len(config.plugins) > 0
         THEN /\ stdout' = stdout \cup {"Loading plugins..."}
              /\ \/ \E found \in Discoveries :
                      /\ calls' = calls \o <<"discoverPlugins", "registerDiscoveredLinters">>
                      /\ registry' = registry \o found
                      /\ rpc' = "list_print"
                 \/ /\ calls' = Append(calls, "discoverPlugins")
                    /\ rpc' = "rejected"
                    /\ UNCHANGED registry
              /\ UNCHANGED ret
         ELSE /\ stdout' = stdout \cup noPluginsLines
              /\ Return(noPluginsCode)
              /\ UNCHANGED <<registry, calls>>
  /\ UNCHANGED <<args, isRemoteOrigin, mainVars, childVars, fn, loaded, locals,
                 options, results, stderr>>

\* src/mod.ts:157-164: what listLinters prints with nothing configured;
\* run then returns 0 (line 205).
listLinters_noPlugins_silent == {}

listLinters_noPlugins ==
  {"No plugins configured.", "Create a viola.config.ts", "Example:"}

listLinters_register_cliPlugins ==
  IF /\ Truthy(args.plugins)
     /\ fn = "run"
     /\ rpc = "list_register"
     /\ Len(Val(loaded).config.plugins) = 0
     /\ ~IsSome(Val(loaded).builderConfig)
  THEN /\ stdout' = stdout \cup {"Loading plugins..."}
       /\ calls' = calls \o <<"discoverPlugins", "registerDiscoveredLinters">>
       /\ registry' = registry \o <<LintA>>
       /\ rpc' = "list_print"
       /\ UNCHANGED <<args, isRemoteOrigin, mainVars, childVars, fn, ret, loaded, locals,
                      options, results, stderr>>
  ELSE ListRegister("run", listLinters_noPlugins, 0)

listLinters_register == ListRegister("run", listLinters_noPlugins, 0)

\* src/mod.ts:373-374
rwlc_list_noPlugins == {"No plugins configured."}

rwlc_list_register == ListRegister("rwlc", rwlc_list_noPlugins, 1)

\* src/mod.ts:167-187 and 377-391: registry.getAll() printed.  Object.keys
\* of an undefined catalog throws a TypeError, which nothing catches.
list_print ==
  /\ fn \in {"run", "rwlc"}
  /\ rpc = "list_print"
  /\ IF registry = << >>
     THEN /\ stdout' = stdout \cup {"No linters found in loaded plugins."}
          /\ Return(0)
     ELSE IF \E i \in 1..Len(registry) : ~IsSome(registry[i].catalog)
     THEN /\ stdout' = stdout \cup {"Available linters:"}
          /\ rpc' = "rejected"
          /\ UNCHANGED ret
     ELSE /\ stdout' = stdout \cup {"Available linters:", "Total:"}
          /\ Return(0)
  /\ UNCHANGED <<args, isRemoteOrigin, mainVars, childVars, fn, loaded, locals, registry,
                 calls, options, results, stderr>>

\* The CLI overrides and the check that something is configured.
Overrides(f, l, hasStringPlugins, noPluginsLines, header) ==
  /\ fn = f
  /\ rpc = "overrides"
  /\ locals' = Some(l)
  /\ IF ~l.hasBuilderLinters /\ ~hasStringPlugins
     THEN /\ stderr' = stderr \cup noPluginsLines
          /\ Return(1)
          /\ UNCHANGED stdout
     ELSE /\ stdout' = stdout \cup header
          /\ rpc' = "try"
          /\ UNCHANGED <<ret, stderr>>
  /\ UNCHANGED <<args, isRemoteOrigin, mainVars, childVars, fn, loaded, registry, calls,
                 options, results>>

run_overrides_reportOnlySuppresses ==
  LET config == Val(loaded).config
      builderConfig == Val(loaded).builderConfig
  IN  Overrides("run",
                [include |-> run_include(args, config),
                 only |-> run_only(args),
                 skip |-> run_skip(args),
                 plugins |-> run_plugins(args, config),
                 hasBuilderLinters |-> run_hasBuilderLinters(builderConfig)],
                run_hasStringPlugins(args, config) \/ args.reportOnly,
                run_noPluginsError,
                run_header(args))

\* src/mod.ts:214-278
run_overrides ==
  LET config == Val(loaded).config
      builderConfig == Val(loaded).builderConfig
  IN  Overrides("run",
                [include |-> run_include(args, config),
                 only |-> run_only(args),
                 skip |-> run_skip(args),
                 plugins |-> run_plugins(args, config),
                 hasBuilderLinters |-> run_hasBuilderLinters(builderConfig)],
                run_hasStringPlugins(args, config),
                run_noPluginsError,
                run_header(args))

\* src/mod.ts:394-420
rwlc_overrides ==
  LET config == Val(loaded).config
      builderConfig == Val(loaded).builderConfig
  IN  Overrides("rwlc",
                [include |-> rwlc_include(args, config),
                 only |-> rwlc_only(args),
                 skip |-> rwlc_skip(args),
                 plugins |-> rwlc_plugins(args, config),
                 hasBuilderLinters |-> rwlc_hasBuilderLinters(builderConfig)],
                rwlc_hasStringPlugins(args, config),
                rwlc_noPluginsError,
                {})

\* The head of the try block: register the builder linters (a throw goes to
\* the catch clause), build the options and call runViola.
Invoke(f, opts) ==
  /\ fn = f
  /\ rpc = "try"
  /\ IF Val(locals).hasBuilderLinters
     THEN RegisterAll(Val(Val(loaded).builderConfig).linters, "engine", <<"runViola">>,
                      "catch")
     ELSE /\ rpc' = "engine"
          /\ calls' = Append(calls, "runViola")
          /\ UNCHANGED registry
  /\ options' = IF rpc' = "engine" THEN Some(opts) ELSE options
  /\ UNCHANGED <<args, isRemoteOrigin, mainVars, childVars, fn, ret, loaded, locals,
                 results, stdout, stderr>>

\* src/mod.ts:282-285
run_catalogs(l, builderConfig) ==
  IF l.hasBuilderLinters THEN Some(registerBuilderLinters(Val(builderConfig).linters))
  ELSE None

\* src/mod.ts:423-426
rwlc_catalogs(l, builderConfig) ==
  IF l.hasBuilderLinters THEN Some(registerBuilderLinters(Val(builderConfig).linters))
  ELSE None

run_invoke_registersAfter ==
  LET r == Val(loaded)
      linters == IF Val(locals).hasBuilderLinters THEN Val(r.builderConfig).linters
                 ELSE << >>
  IN  /\ fn = "run"
      /\ rpc = "try"
      /\ registry' = registry \o linters
      /\ calls' = calls \o <<"runViola">> \o Repeat("register", Len(linters))
      /\ rpc' = "engine"
      /\ options' = Some(run_options(args, r.config, r.builderConfig, Val(locals),
                                     run_catalogs(Val(locals), r.builderConfig)))
      /\ UNCHANGED <<args, isRemoteOrigin, mainVars, childVars, fn, ret, loaded, locals,
                     results, stdout, stderr>>

\* src/mod.ts:280-306
run_invoke ==
  LET r == Val(loaded)
  IN  Invoke("run", run_options(args, r.config, r.builderConfig, Val(locals),
                                run_catalogs(Val(locals), r.builderConfig)))

\* src/mod.ts:422-444
rwlc_invoke ==
  LET r == Val(loaded)
  IN  Invoke("rwlc", rwlc_options(args, r.config, r.builderConfig, Val(locals),
                                  rwlc_catalogs(Val(locals), r.builderConfig)))

\* src/mod.ts:306 and 444: the awaited runViola(options) resolves with results
\* or rejects into the catch clause.
engine_returns ==
  /\ fn \in {"run", "rwlc"}
  /\ rpc = "engine"
  /\ \/ \E hasErrors \in BOOLEAN :
          /\ results' = Some([hasErrors |-> hasErrors])
          /\ rpc' = "format"
     \/ /\ rpc' = "catch"
        /\ UNCHANGED results
  /\ UNCHANGED <<args, isRemoteOrigin, mainVars, childVars, fn, ret, loaded, locals,
                 registry, calls, options, stdout, stderr>>

\* console.log(formatResults(results)) and the exit code; formatResults may
\* throw into the catch clause.
Format(f, code) ==
  /\ fn = f
  /\ rpc = "format"
  /\ calls' = Append(calls, "formatResults")
  /\ \/ /\ stdout' = stdout \cup {"results"}
        /\ Return(code)
     \/ /\ rpc' = "catch"
        /\ UNCHANGED <<ret, stdout>>
  /\ UNCHANGED <<args, isRemoteOrigin, mainVars, childVars, fn, loaded, locals, registry,
                 options, results, stderr>>

\* src/mod.ts:307-312
run_format == Format("run", run_exitCode(Val(results), args))

\* src/mod.ts:445-450
rwlc_format == Format("rwlc", rwlc_exitCode(Val(results), args))

\* src/mod.ts:313-323 and 451-459: the message, the stack of an Error under
\* --verbose, and exit code 1.
catch_error ==
  /\ fn \in {"run", "rwlc"}
  /\ rpc = "catch"
  /\ \E hasStack \in BOOLEAN :
       stderr' = stderr \cup {"Error:", "message"}
                        \cup (IF args.verbose /\ hasStack THEN {"Stack trace:"} ELSE {})
  /\ Return(1)
  /\ UNCHANGED <<args, isRemoteOrigin, mainVars, childVars, fn, loaded, locals, registry,
                 calls, options, results, stdout>>

\* ------------------------------------------------------------- parseArgs
\* The command line is a sequence of tokens, each a string of characters.
MaxArgs == 3

Name_help == <<"h", "e", "l", "p">>
Name_reportOnly == <<"r", "e", "p", "o", "r", "t", "-", "o", "n", "l", "y">>
Name_verbose == <<"v", "e", "r", "b", "o", "s", "e">>
Name_list == <<"l", "i", "s", "t">>
Name_parallel == <<"p", "a", "r", "a", "l", "l", "e", "l">>
Name_only == <<"o", "n", "l", "y">>
Name_skip == <<"s", "k", "i", "p">>
Name_include == <<"i", "n", "c", "l", "u", "d", "e">>
Name_project == <<"p", "r", "o", "j", "e", "c", "t">>
Name_config == <<"c", "o", "n", "f", "i", "g">>
Name_plugins == <<"p", "l", "u", "g", "i", "n", "s">>

\* src/mod.ts:51-52
parse_boolean == {Name_help, Name_reportOnly, Name_verbose, Name_list, Name_parallel}
parse_string ==
  {Name_only, Name_skip, Name_include, Name_project, Name_config, Name_plugins}

parse_alias_noReportOnly(k) ==
  CASE k = "h" -> Name_help
    [] k = "v" -> Name_verbose
    [] k = "l" -> Name_list
    [] k = "p" -> Name_project
    [] k = "i" -> Name_include
    [] k = "c" -> Name_config
    [] OTHER -> <<k>>

\* src/mod.ts:53-61: the name a one-letter flag stands for (itself when the
\* table has no entry).
parse_alias(k) ==
  CASE k = "h" -> Name_help
    [] k = "r" -> Name_reportOnly
    [] k = "v" -> Name_verbose
    [] k = "l" -> Name_list
    [] k = "p" -> Name_project
    [] k = "i" -> Name_include
    [] k = "c" -> Name_config
    [] OTHER -> <<k>>

IsLongFlag(tok) == Len(tok) > 2 /\ tok[1] = "-" /\ tok[2] = "-"
IsShortFlag(tok) == Len(tok) = 2 /\ tok[1] = "-" /\ tok[2] # "-"
IsFlag(tok) == IsLongFlag(tok) \/ IsShortFlag(tok)
\* The option a flag token names.
parse_key(tok) ==
  IF IsLongFlag(tok) THEN SubSeq(tok, 3, Len(tok)) ELSE parse_alias(tok[2])

\* parseArgs of @std/cli as the CLI configures it, over tokens i.. of argv:
\* a boolean flag sets its option; any other flag takes the next token as its
\* value unless that is a flag too (the value is then ""); a later value
\* replaces an earlier one; other tokens are positional.
RECURSIVE parseTokens(_, _, _)
parseTokens(argv, i, p) ==
  IF i > Len(argv) THEN p
  ELSE IF ~IsFlag(argv[i]) THEN parseTokens(argv, i + 1, p)
  ELSE LET key == parse_key(argv[i])
           hasValue == i < Len(argv) /\ ~IsFlag(argv[i + 1])
       IN  IF key \in parse_boolean
           THEN parseTokens(argv, i + 1, [p EXCEPT !.bools = @ \cup {key}])
           ELSE parseTokens(argv, IF hasValue THEN i + 2 ELSE i + 1,
                            [p EXCEPT !.strs =
                               MapSet(@, key, IF hasValue THEN argv[i + 1] ELSE << >>)])

\* src/mod.ts:50-67 and 331-349: the CliArgs the orchestrator reads.  A boolean
\* option without a flag is false (report-only, verbose and parallel by the
\* `default` table of lines 62-66, help and list by parseArgs' own default
\* for booleans); a string option without a flag is undefined.
parseArgs(argv) ==
  LET p == parseTokens(argv, 1, [bools |-> {}, strs |-> EmptyMap])
      flag(name) == name \in p.bools
      str(name) == IF name \in DOMAIN p.strs THEN Some(p.strs[name]) ELSE None
  IN  [help |-> flag(Name_help), list |-> flag(Name_list),
       reportOnly |-> flag(Name_reportOnly), verbose |-> flag(Name_verbose),
       parallel |-> flag(Name_parallel), only |-> str(Name_only),
       skip |-> str(Name_skip), include |-> str(Name_include),
       plugins |-> str(Name_plugins), project |-> str(Name_project),
       config |-> str(Name_config)]

LongFlag(name) == <<"-", "-">> \o name
ShortFlag(k) == <<"-", k>>
AliasLetters == {"h", "r", "v", "l", "p", "i", "c"}
LongTokens ==
  {LongFlag(n) : n \in {Name_help, Name_reportOnly, Name_verbose, Name_list,
                        Name_project, Name_include, Name_config, Name_plugins}}
  \cup {<<"a">>}
Tokens == LongTokens \cup {ShortFlag(k) : k \in AliasLetters}
\* Every command line of up to MaxArgs tokens, and those without aliases.
Argvs == SeqsUpTo(Tokens, MaxArgs)
LongArgvs == SeqsUpTo(LongTokens, MaxArgs)
ParsedArgs == {parseArgs(argv) : argv \in Argvs}

\* --------------------------------------------------------- specifications
Step(loadResults) ==
  \/ main_start
  \/ main_stat
  \/ main_makeTempFile
  \/ main_writeRunner
  \/ main_spawn
  \/ main_forwardExit
  \/ main_finally
  \/ main_runExit
  \/ child_importConfig
  \/ child_exit
  \/ run_start
  \/ run_loadConfig(loadResults)
  \/ listLinters_loadConfig(loadResults)
  \/ listLinters_register
  \/ rwlc_start
  \/ rwlc_loadConfig(loadResults)
  \/ rwlc_list_register
  \/ list_print
  \/ run_overrides
  \/ rwlc_overrides
  \/ run_invoke
  \/ rwlc_invoke
  \/ engine_returns
  \/ run_format
  \/ rwlc_format
  \/ catch_error

\* The control flow of one invocation, from main to the process's end.
Init == InitWith(FlowArgs)
Next == Step(LoadResults(FlowLinterLists))
Spec == Init /\ [][Next]_vars

\* The same program over the values of the string flags.
InitFlags == InitWith(FlagArgs)
SpecFlags == InitFlags /\ [][Next]_vars

\* The same program over the combinations of the toggles and the overrides.
InitOverrides == InitWith(OverrideArgs)
SpecOverrides == InitOverrides /\ [][Next]_vars

\* The same program started from command lines of up to MaxArgs tokens.
InitArgs == InitWith(ParsedArgs)
SpecArgs == InitArgs /\ [][Next]_vars

\* The same program over every builder linter list up to MaxLinters.
InitBuilder == InitWith(BuilderArgs)
NextBuilder == Step(LoadResults(AllLinterLists))
SpecBuilder == InitBuilder /\ [][NextBuilder]_vars

\* ------------------------------------------------------------------ claims
Called(name) == \E i \in 1..Len(calls) : calls[i] = name
CallCount(name) == Cardinality({i \in 1..Len(calls) : calls[i] = name})
Orchestrating == fn \in {"run", "rwlc"}
Returned == Orchestrating /\ rpc = "returned"
\* run proper: neither --help nor --list.
Proper == ~args.help /\ ~args.list
LoadedBuilderLinters ==
  IF IsSome(loaded) /\ IsSome(Val(loaded).builderConfig)
  THEN Val(Val(loaded).builderConfig).linters
  ELSE << >>
ExpectedExit == IF Val(results).hasErrors /\ ~args.reportOnly THEN 1 ELSE 0

C2_NoPluginsMessage ==
  (/\ Returned
   /\ Proper
   /\ IsSome(loaded)
   /\ LoadedBuilderLinters = << >>
   /\ Val(loaded).config.plugins = << >>
   /\ args.plugins = None)
  => /\ ret = Some(1)
     /\ "Error: No plugins configured." \in stderr
     /\ "Example:" \in stderr

\* C3: no failure of a collaborator makes run reject: every one is caught
\* and turned into the return value 1.
C3_NeverRejects ==
  fn = "run" => rpc # "rejected"

\* C4: on the bridge path the temporary script no longer exists when the
\* parent process has ended (a failure of Deno.remove itself set aside).
C4_TmpFileGone ==
  (pc = "exited" /\ tmpFile # "remove failed") => tmpFile \in {"none", "removed"}

\* C5: with --help, run and runWithLoadedConfig call no collaborator and
\* register nothing, whatever the other flags, and return 0 after printing
\* the help text.
C5_HelpShortCircuits ==
  args.help =>
    /\ calls = << >>
    /\ registry = << >>
    /\ loaded = None
    /\ Returned => (ret = Some(0) /\ "viola - Convention linter" \in stdout)
    /\ Orchestrating => rpc \in {"start", "returned"}

C5_Witness ==
  /\ args.help
  /\ args.list
  /\ args.verbose
  /\ Truthy(args.plugins)
  /\ Truthy(args.config)
  /\ fn = "rwlc"
  /\ Returned

\* C6: started through main with --help, the process spawns no bridge
\* child and loads no configuration module on its way to exit code 0.
C6_HelpNoBridge ==
  args.help => (children = 0 /\ ~configImported)

\* C7 (as stated): the include list passed to the engine is the comma-split,
\* trimmed --include value whenever --include is given, otherwise
\* config.include when non-empty, otherwise the default list.
C7_Original ==
  IsSome(options) =>
    Val(options).include =
      IF IsSome(args.include) THEN splitTrim(Val(args.include))
      ELSE IF Val(loaded).config.include # << >> THEN Val(loaded).config.include
      ELSE DefaultInclude

\* C7 (amended): the include list passed to the engine is the comma-split,
\* trimmed --include value whenever --include is given with a non-empty
\* value, otherwise config.include when non-empty, otherwise the default.
C7_Include ==
  IsSome(options) =>
    Val(options).include =
      IF IsSome(args.include) /\ Val(args.include) # << >>
      THEN splitTrim(Val(args.include))
      ELSE IF Val(loaded).config.include # << >> THEN Val(loaded).config.include
      ELSE DefaultInclude

C7_Witness ==
  /\ IsSome(options)
  /\ args.include = Some(<<" ", "a">>)
  /\ Val(loaded).config.include = <<DirLib>>
  /\ Val(options).include = << <<"a">> >>

\* The case of C8: a declarative config with plugins P, --plugins Q on the
\* command line, no builder linters, and the engine invoked.
C8_Case ==
  /\ IsSome(options)
  /\ LoadedBuilderLinters = << >>
  /\ Val(loaded).config.plugins # << >>
  /\ IsSome(args.plugins)

\* C8 (as stated): in that case the plugin list passed to runViola is exactly
\* the comma-split Q.
C8_Original ==
  C8_Case => Val(options).plugins = split(Val(args.plugins))

\* C8 (amended): in that case, with Q not empty, the plugin list passed to
\* runViola is exactly the comma-split Q with every entry trimmed, never
\* joined with P; an empty Q leaves P in place.
C8_CliPluginsReplace ==
  C8_Case =>
    Val(options).plugins =
      IF Val(args.plugins) = << >> THEN Val(loaded).config.plugins
      ELSE splitTrim(Val(args.plugins))

C8_Witness ==
  /\ C8_Case
  /\ args.plugins = Some(<<"a", ",">>)
  /\ Val(loaded).config.plugins = <<PkgA>>
  /\ Val(options).plugins = << <<"a">>, << >> >>

IsPrefix(s, t) == Len(s) <= Len(t) /\ s = SubSeq(t, 1, Len(s))

C10_CliPluginsWin ==
  (IsSome(options) /\ Truthy(args.plugins)) =>
    Val(options).plugins = splitTrim(Val(args.plugins))

\* --list without --help.
Listing == args.list /\ ~args.help
LoadedPlugins == IF IsSome(loaded) THEN Val(loaded).config.plugins ELSE << >>

\* C11: with --list and without --help, when no collaborator throws, run and
\* runWithLoadedConfig return 0 whether or not plugins or linters are
\* configured.
C11_ListExitsZero ==
  (Listing /\ Returned) => ret = Some(0)

\* C12: with --list, no builder linters and no config plugins, the message
\* "No plugins configured." goes to stdout and the function returns without
\* calling discoverPlugins or runViola and without reading the registry; with
\* plugins configured and an empty registry, "No linters found in loaded
\* plugins." is printed and no list is formatted.
C12_ListNothingConfigured ==
  (Listing /\ IsSome(loaded) /\ LoadedBuilderLinters = << >>) =>
    /\ LoadedPlugins = << >> =>
         /\ ~Called("discoverPlugins")
         /\ ~Called("runViola")
         /\ rpc \in {"list_register", "returned"}
         /\ Returned => "No plugins configured." \in stdout
    /\ (LoadedPlugins # << >> /\ Returned /\ registry = << >>) =>
         /\ "No linters found in loaded plugins." \in stdout
         /\ "Available linters:" \notin stdout

C12_Witness ==
  /\ Listing
  /\ fn = "run"
  /\ Returned
  /\ LoadedBuilderLinters = << >>
  /\ LoadedPlugins = << >>
  /\ "No plugins configured." \in stdout
  /\ calls = <<"loadConfig">>

\* C13: in run proper, without builder linters, config plugins and --plugins
\* specifiers, runViola is never called and run returns 1, whatever
\* --report-only, --verbose, --only, --skip and --include are.
C13_MissingPluginsError ==
  (/\ fn = "run"
   /\ Proper
   /\ IsSome(loaded)
   /\ LoadedBuilderLinters = << >>
   /\ LoadedPlugins = << >>
   /\ ~Truthy(args.plugins))
  => /\ ~Called("runViola")
     /\ rpc \in {"overrides", "returned"}
     /\ Returned => (ret = Some(1) /\ "Error: No plugins configured." \in stderr)

C13_Witness ==
  /\ fn = "run"
  /\ Proper
  /\ Returned
  /\ LoadedBuilderLinters = << >>
  /\ LoadedPlugins = << >>
  /\ args.plugins = Some(<< >>)
  /\ args.reportOnly
  /\ args.verbose
  /\ IsSome(args.only)
  /\ IsSome(args.skip)
  /\ IsSome(args.include)
  /\ ret = Some(1)
  /\ ~Called("runViola")

\* C14: on the bridge path the parent ends only after the child has, and
\* through Deno.exit with exactly the child's exit code, whatever that code is.
C14_ChildCodeForwarded ==
  (children > 0 /\ pc = "exited") =>
    /\ cpc = "exited"
    /\ IsSome(childCode)
    /\ exitHow = "exit"
    /\ exitCode = childCode

C14_Witness ==
  /\ children = 1
  /\ pc = "exited"
  /\ childCode = Some(MaxExit)
  /\ exitCode = Some(MaxExit)

\* C15: from a remote origin, when no module-style configuration file exists
\* (none at all, or --config names an existing declarative file), main makes
\* no temporary file and no child, and the configuration is resolved by run
\* in the parent process.
C15_NoModuleNoBridge ==
  (isRemoteOrigin /\ configFile \in {"absent", "declarative"}) =>
    /\ tmpFile = "none"
    /\ children = 0
    /\ fn # "rwlc"

\* C16: one invocation makes at most one child process: exactly one once the
\* parent has launched the bridge, none before, and none is added while or
\* after runWithLoadedConfig runs in the child.
C16_AtMostOneChild ==
  /\ children \in {0, 1}
  /\ children = 1 <=> cpc # "none"
  /\ fn = "rwlc" => children = 1

C16_Witness ==
  /\ children = 1
  /\ fn = "rwlc"
  /\ Returned
  /\ cpc = "exited"
  /\ pc = "exited"

\* C17: when writing the runner script or launching the child fails, the
\* parent catches the error and ends through Deno.exit(1); main does not
\* reject.
C17_BridgeFaultCaught ==
  (pc = "exited" /\ tmpFile # "none" /\ children = 0) =>
    (exitHow = "exit" /\ exitCode = Some(1))

\* The cases of C18, read off what happened rather than off the return value.
NothingConfigured ==
  /\ LoadedBuilderLinters = << >>
  /\ LoadedPlugins = << >>
  /\ ~Truthy(args.plugins)
ErrorsReported == IsSome(results) /\ Val(results).hasErrors /\ ~args.reportOnly
\* registry.register threw (one call more than linters registered), runViola
\* was called and gave no result, or formatResults was called and printed
\* nothing.
Threw ==
  \/ CallCount("register") > Len(registry)
  \/ Called("runViola") /\ ~IsSome(results)
  \/ Called("formatResults") /\ "results" \notin stdout

\* C18: when run proper returns, it returns 0 or 1, and 1 exactly when
\* nothing is configured, or the engine reported errors without
\* --report-only, or registration, the engine or the formatting threw.
C18_ExitCodes ==
  (fn = "run" /\ Proper /\ Returned) =>
    /\ ret \in {Some(0), Some(1)}
    /\ ret = Some(1) <=> (NothingConfigured \/ ErrorsReported \/ Threw)

C18_Witness ==
  /\ fn = "run"
  /\ Proper
  /\ Returned
  /\ ~NothingConfigured
  /\ IsSome(results)
  /\ Val(results).hasErrors
  /\ args.reportOnly
  /\ Threw
  /\ ret = Some(1)

\* C19 (as stated): options.only and options.skip are the comma-split values
\* of --only and --skip, unchanged, whenever the flag is given, and undefined
\* when it is absent.
C19_Original ==
  IsSome(options) =>
    /\ Val(options).only =
         IF IsSome(args.only) THEN Some(split(Val(args.only))) ELSE None
    /\ Val(options).skip =
         IF IsSome(args.skip) THEN Some(split(Val(args.skip))) ELSE None

\* C19 (amended): options.only and options.skip are the comma-split values of
\* --only and --skip in order, every identifier trimmed, whenever the flag is
\* given with a non-empty value; when the flag is absent or empty the option
\* is undefined; it is never an empty list.
C19_OnlySkip ==
  IsSome(options) =>
    /\ Val(options).only =
         IF Truthy(args.only) THEN Some(splitTrim(Val(args.only))) ELSE None
    /\ Val(options).skip =
         IF Truthy(args.skip) THEN Some(splitTrim(Val(args.skip))) ELSE None
    /\ Val(options).only # Some(<< >>)
    /\ Val(options).skip # Some(<< >>)

C19_Witness ==
  /\ IsSome(options)
  /\ args.only = Some(<<" ", "a">>)
  /\ args.skip = Some(<<"a">>)
  /\ Val(options).only = Some(<< <<"a">> >>)
  /\ Val(options).skip = Some(<< <<"a">> >>)

\* The aliases as C21 lists them: the long flag each short flag stands for.
LongFormOf(tok) ==
  CASE tok = <<"-", "h">> -> LongFlag(Name_help)
    [] tok = <<"-", "r">> -> LongFlag(Name_reportOnly)
    [] tok = <<"-", "v">> -> LongFlag(Name_verbose)
    [] tok = <<"-", "l">> -> LongFlag(Name_list)
    [] tok = <<"-", "p">> -> LongFlag(Name_project)
    [] tok = <<"-", "i">> -> LongFlag(Name_include)
    [] tok = <<"-", "c">> -> LongFlag(Name_config)
    [] OTHER -> tok
\* A command line with the aliases at the positions in `at` written out.
WithLongForms(argv, at) ==
  [i \in 1..Len(argv) |-> IF i \in at THEN LongFormOf(argv[i]) ELSE argv[i]]
AliasesParseAlike ==
  \A argv \in Argvs : \A at \in SUBSET (1..Len(argv)) :
    parseArgs(WithLongForms(argv, at)) = parseArgs(argv)
DefaultsAreFalse ==
  LET a == parseArgs(<< >>) IN ~a.reportOnly /\ ~a.verbose /\ ~a.parallel
ParsedLongArgs == {parseArgs(argv) : argv \in LongArgvs}

\* C21: a command line and the same command line with any aliases replaced
\* by their long flags parse to the same arguments; without arguments
\* report-only, verbose and parallel are false; so the arguments every run
\* works on are those of an alias-free command line, and run's return value
\* does not depend on which form was typed.
C21_AliasesEquivalent ==
  /\ AliasesParseAlike
  /\ DefaultsAreFalse
  /\ args \in ParsedLongArgs

C21_Witness ==
  /\ args = parseArgs(<<ShortFlag("r"), ShortFlag("v")>>)
  /\ args.reportOnly
  /\ args.verbose
  /\ fn = "run"
  /\ Returned
  /\ IsSome(results)
  /\ Val(results).hasErrors
  /\ ret = Some(0)

\* Call number i of the log precedes every call `name`.
Before(i, name) == \A j \in 1..Len(calls) : calls[j] = name => i < j
RunProper == fn = "run" /\ Proper

\* C22: in one call of run proper the collaborators are called one after the
\* other: loadConfig first and exactly once, its result in hand before any
\* registration; every registration before runViola; runViola at most once;
\* formatResults only after runViola, and only when runViola gave results.
C22_CallOrder ==
  RunProper =>
    /\ CallCount("loadConfig") = (IF rpc \in {"start", "load"} THEN 0 ELSE 1)
    /\ calls # << >> => calls[1] = "loadConfig"
    /\ Called("register") => IsSome(loaded)
    /\ \A i \in 1..Len(calls) : calls[i] = "register" => Before(i, "runViola")
    /\ CallCount("runViola") <= 1
    /\ CallCount("formatResults") <= 1
    /\ \A i \in 1..Len(calls) : calls[i] = "runViola" => Before(i, "formatResults")
    /\ Called("formatResults") => (Called("runViola") /\ IsSome(results))

C22_Witness ==
  /\ RunProper
  /\ Returned
  /\ calls = <<"loadConfig", "register", "register", "runViola", "formatResults">>

\* A call of registry.register threw: one call more than linters registered.
RegisterThrew == CallCount("register") > Len(registry)

run_locals(cliArgs, r) ==
  [include |-> run_include(cliArgs, r.config),
   only |-> run_only(cliArgs),
   skip |-> run_skip(cliArgs),
   plugins |-> run_plugins(cliArgs, r.config),
   hasBuilderLinters |-> run_hasBuilderLinters(r.builderConfig)]
rwlc_locals(cliArgs, r) ==
  [include |-> rwlc_include(cliArgs, r.config),
   only |-> rwlc_only(cliArgs),
   skip |-> rwlc_skip(cliArgs),
   plugins |-> rwlc_plugins(cliArgs, r.config),
   hasBuilderLinters |-> rwlc_hasBuilderLinters(r.builderConfig)]
run_wouldPass(cliArgs, r) ==
  run_options(cliArgs, r.config, r.builderConfig, run_locals(cliArgs, r),
              run_catalogs(run_locals(cliArgs, r), r.builderConfig))
rwlc_wouldPass(cliArgs, r) ==
  rwlc_options(cliArgs, r.config, r.builderConfig, rwlc_locals(cliArgs, r),
               rwlc_catalogs(rwlc_locals(cliArgs, r), r.builderConfig))
\* The value either function returns once the engine's part is known.
run_wouldReturn(cliArgs, r, threw, res) ==
  IF ~run_hasBuilderLinters(r.builderConfig) /\ ~run_hasStringPlugins(cliArgs, r.config)
  THEN 1
  ELSE IF threw THEN 1 ELSE run_exitCode(Val(res), cliArgs)
rwlc_wouldReturn(cliArgs, r, threw, res) ==
  IF ~rwlc_hasBuilderLinters(r.builderConfig) /\ ~rwlc_hasStringPlugins(cliArgs, r.config)
  THEN 1
  ELSE IF threw THEN 1 ELSE rwlc_exitCode(Val(res), cliArgs)
\* The two derivations agree on every value of the string flags.
OverridesAgree ==
  \A a \in FlagArgs : \A r \in LoadResults(FlowLinterLists) :
    /\ run_locals(a, r) = rwlc_locals(a, r)
    /\ run_wouldPass(a, r) = rwlc_wouldPass(a, r)

\* C24: for the same arguments without --help and --list, the same loadConfig
\* result and the same engine behaviour, runWithLoadedConfig passes runViola
\* the options run would pass and returns the value run would return, and
\* the other way round.
C24_BridgeSameAsRun ==
  /\ OverridesAgree
  /\ (Proper /\ Orchestrating /\ IsSome(loaded)) =>
       /\ IsSome(options) =>
            /\ Val(options) = run_wouldPass(args, Val(loaded))
            /\ Val(options) = rwlc_wouldPass(args, Val(loaded))
       /\ Returned =>
            /\ ret = Some(run_wouldReturn(args, Val(loaded), Threw, results))
            /\ ret = Some(rwlc_wouldReturn(args, Val(loaded), Threw, results))

C24_Witness ==
  /\ fn = "rwlc"
  /\ Proper
  /\ Returned
  /\ IsSome(options)
  /\ args.plugins = Some(<<"a">>)
  /\ IsSome(args.only)
  /\ args.reportOnly
  /\ IsSome(results)
  /\ Val(results).hasErrors
  /\ ~Threw
  /\ ret = Some(0)

\* C25: loaded from a file:// origin, main makes no temporary file and no
\* child process, calls run and ends through Deno.exit with run's return
\* value; a temporary file or a child exists only when the origin is not
\* file:// and Deno.stat found the config path.
C25_FileOriginDirect ==
  /\ ~isRemoteOrigin =>
       /\ tmpFile = "none"
       /\ children = 0
       /\ fn \in {"none", "run"}
       /\ pc = "exited" => (exitHow = "exit" /\ IsSome(ret) /\ exitCode = ret)
  /\ (tmpFile # "none" \/ children > 0) =>
       (isRemoteOrigin /\ configFile \in {"module", "declarative"})

\* C26: whenever runViola is invoked, either builder linters were registered
\* and options.plugins is empty, or options.plugins is a non-empty list.
C26_EngineHasLinters ==
  /\ Called("runViola") <=> IsSome(options)
  /\ IsSome(options) =>
       \/ /\ registry # << >>
          /\ CallCount("register") = Len(registry)
          /\ Val(options).plugins = << >>
       \/ /\ registry = << >>
          /\ Val(options).plugins # << >>

C26_Witness ==
  /\ Called("runViola")
  /\ LoadedBuilderLinters = << >>
  /\ LoadedPlugins = << >>
  /\ args.plugins = Some(<<" ">>)
  /\ Val(options).plugins = << << >> >>

C28_ConfigUntouched ==
  [][/\ IsSome(loaded) => loaded' = loaded
     /\ IsSome(options') =>
          /\ Val(options').inherit = Val(loaded').config.inherit
          /\ Val(options').linterConfig = Val(loaded').config.linterConfig]_vars

C28_Witness ==
  /\ IsSome(options)
  /\ args.verbose
  /\ args.reportOnly
  /\ args.parallel
  /\ IsSome(args.only)
  /\ IsSome(args.include)
  /\ Truthy(args.plugins)
  /\ Val(options).inherit = <<Preset>>
  /\ Val(options).linterConfig = Val(loaded).config.linterConfig
  /\ rpc = "engine"

\* The catalog map C29 describes: the ids of the linters that carry a
\* catalog, each with the catalog of the last such linter of that id.
WithCatalog(ls) == {i \in 1..Len(ls) : IsSome(ls[i].catalog)}
CatalogIds(ls) == {ls[i].meta_id : i \in WithCatalog(ls)}
LastOf(ls, id) ==
  CHOOSE i \in WithCatalog(ls) :
    /\ ls[i].meta_id = id
    /\ \A j \in WithCatalog(ls) : ls[j].meta_id = id => j <= i
IsCatalogMap(m, ls) ==
  /\ DOMAIN m = CatalogIds(ls)
  /\ \A id \in CatalogIds(ls) : m[id] = Val(ls[LastOf(ls, id)].catalog)
CatalogsOfEveryList ==
  \A ls \in AllLinterLists : IsCatalogMap(registerBuilderLinters(ls), ls)

\* C29: registerBuilderLinters returns that map for every list of linters,
\* and the catalogs option of the engine is the map of the builder linters
\* when there are any and undefined otherwise.
C29_Catalogs ==
  /\ CatalogsOfEveryList
  /\ IsSome(options) =>
       IF LoadedBuilderLinters # << >>
       THEN /\ IsSome(Val(options).catalogs)
            /\ IsCatalogMap(Val(Val(options).catalogs), LoadedBuilderLinters)
       ELSE Val(options).catalogs = None

C29_Witness ==
  /\ IsSome(options)
  /\ LoadedBuilderLinters = <<LintA, LintC>>
  /\ DOMAIN Val(Val(options).catalogs) = {<<"x">>}
  /\ Val(Val(options).catalogs)[<<"x">>] = "catC"

\* The arguments with every empty string flag taken away.
Unset(o) == IF o = Some(<< >>) THEN None ELSE o
WithoutEmptyFlags(a) ==
  [a EXCEPT !.include = Unset(@), !.only = Unset(@), !.skip = Unset(@),
            !.plugins = Unset(@)]
EmptyFlagsAgree ==
  \A a \in FlagArgs : \A r \in LoadResults(FlowLinterLists) :
    LET b == WithoutEmptyFlags(a)
    IN  /\ run_locals(a, r) = run_locals(b, r)
        /\ rwlc_locals(a, r) = rwlc_locals(b, r)
        /\ run_hasStringPlugins(a, r.config) = run_hasStringPlugins(b, r.config)
        /\ rwlc_hasStringPlugins(a, r.config) = rwlc_hasStringPlugins(b, r.config)

\* C30: run and runWithLoadedConfig treat --include "", --only "", --skip ""
\* and --plugins "" as they treat the absent flag: the derived include, only,
\* skip and plugins, the test for configured plugins, the options given to
\* the engine and the return value are those of the arguments without the
\* empty flags.
C30_EmptyIsAbsent ==
  /\ EmptyFlagsAgree
  /\ (Proper /\ Orchestrating /\ IsSome(loaded)) =>
       LET b == WithoutEmptyFlags(args)
           r == Val(loaded)
       IN  /\ IsSome(locals) =>
                Val(locals) = (IF fn = "run" THEN run_locals(b, r) ELSE rwlc_locals(b, r))
           /\ IsSome(options) =>
                Val(options) = (IF fn = "run" THEN run_wouldPass(b, r)
                                ELSE rwlc_wouldPass(b, r))
           /\ Returned =>
                ret = Some(IF fn = "run" THEN run_wouldReturn(b, r, Threw, results)
                           ELSE rwlc_wouldReturn(b, r, Threw, results))

C30_Witness ==
  /\ fn = "run"
  /\ Proper
  /\ Returned
  /\ args.plugins = Some(<< >>)
  /\ args.include = Some(<<"a">>)
  /\ LoadedPlugins = <<PkgA>>
  /\ LoadedBuilderLinters = << >>
  /\ IsSome(options)
  /\ Val(options).plugins = <<PkgA>>

====
